---- MODULE Spec2Model ----
(***************************************************************************)
(* Payment-gated data-access pipeline of the KAMIYO risk auditor:          *)
(*   - the request pipeline of src/src/index.ts (route composition,        *)
(*     HEAD/OPTIONS short cut, fetchKamiyoExploits wrapper);               *)
(*   - PaymentGate / PaymentVerifier (src/x402/middleware, not part of the *)
(*     available sources: modelled from sections 4.1 and 4.2 of spec.md);  *)
(*   - ResilientDataService (src/services/data-service, likewise modelled  *)
(*     from section 4.3 of spec.md).                                       *)
(* Gate time (gateNow) is counted in half hours, data-service time (dsNow) *)
(* in half minutes.                                                        *)
(***************************************************************************)
EXTENDS Integers, Sequences, FiniteSets, TLC

VARIABLES
    gateNow,        \* Date.now() as seen by the payment gate, in half hours
    verifCache,     \* VerificationRecord cache: signature -> record | NoRecord
    pending,        \* requests suspended in the gate, awaiting the chain lookup
    last,           \* the response most recently sent, with the request it answers
    verifiedLog,    \* history: signature, endpoint -> time of the latest successful
                    \* verification there, while less than an hour old; else -1
    latestVerified, \* history: signature -> endpoint of its latest verification
    dsNow,          \* Date.now() as seen by the data service, in half minutes
    circuit,        \* CircuitState per source
    resultCache,    \* result cache: key protocol|chain -> entry
    fetches,        \* fetchExploits calls whose fan-out is in flight
    lastFetch,      \* the fetchExploits call that returned in the last step, if any
    recent,         \* history: per source, the outcomes of its last two calls
    today,          \* Date.now() as seen by the risk engine, in days
    riskLast,       \* the latest call of calculateRiskScore: arguments, time, result
    riskPrev,       \* the call before it, when that had the same arguments
    detection       \* the detectRisks call in progress or returned last

gateVars == <<gateNow, verifCache, pending, last, verifiedLog, latestVerified>>

dsVars == <<dsNow, circuit, resultCache, fetches, lastFetch, recent>>

engineVars == <<today, riskLast, riskPrev, detection>>

vars == <<gateNow, verifCache, pending, last, verifiedLog, latestVerified,
          dsNow, circuit, resultCache, fetches, lastFetch, recent,
          today, riskLast, riskPrev, detection>>

\* ------------------------------------------------------------------ bounds

MaxGateClock == 3

MaxDsClock == 4

MaxToday == 2

MaxRepeat == 11

MaxApprovals == 2

\* ----------------------------------------------------- configuration (index.ts)

\* PRICE_PER_REQUEST_SOL = 0.001 SOL, in lamports (0.001 * 1_000_000_000).
PRICE_PER_REQUEST_LAMPORTS == 1000000

PAYMENT_WALLET == "CE4BW"

\* one hour, in half hours
OneHour == 2

\* variant: records kept half an hour longer
VERIFICATION_TTL_Longer == OneHour + 1

\* "Payment signature cached for 1 hour"
VERIFICATION_TTL == OneHour

Endpoints == {"/approval-audit", "/exploits", "/risk-score/:protocol"}

\* variant: the /risk-score route mounted with the /exploits resource
MountResource_Copied(ep) ==
    CASE ep = "/approval-audit"       -> <<"approval-audit">>
      [] ep = "/exploits"             -> <<"exploits">>
      [] ep = "/risk-score/:protocol" -> <<"exploits">>

\* The resource each route hands to x402Middleware, as a path (segments).
MountResource(ep) ==
    CASE ep = "/approval-audit"       -> <<"approval-audit">>
      [] ep = "/exploits"             -> <<"exploits">>
      [] ep = "/risk-score/:protocol" -> <<"risk-score">>

\* variant: /exploits mounted without a price
MountPrice_FreeExploits(ep) == IF ep = "/exploits" THEN 0 ELSE PRICE_PER_REQUEST_LAMPORTS

\* The price each route hands to x402Middleware.
MountPrice(ep) == PRICE_PER_REQUEST_LAMPORTS

\* variant: /exploits mounted with its handler ahead of the gate
Pipeline_HandlerFirst(ep) ==
    CASE ep = "/.well-known/x402"     -> <<"cors", "rateLimit", "discovery">>
      [] ep = "/approval-audit"       -> <<"cors", "rateLimit", "x402", "handler">>
      [] ep = "/exploits"             -> <<"cors", "rateLimit", "validate", "handler", "x402">>
      [] ep = "/risk-score/:protocol" -> <<"cors", "rateLimit", "validate", "x402", "handler">>

\* variant: the data routes mounted with the gate ahead of request validation
Pipeline_GateFirst(ep) ==
    CASE ep = "/.well-known/x402"     -> <<"cors", "rateLimit", "discovery">>
      [] ep = "/approval-audit"       -> <<"cors", "rateLimit", "x402", "handler">>
      [] ep = "/exploits"             -> <<"cors", "rateLimit", "x402", "validate", "handler">>
      [] ep = "/risk-score/:protocol" -> <<"cors", "rateLimit", "x402", "validate", "handler">>

\* The middleware chain of each route, in mount order. cors and rateLimit are
\* app.use'd ahead of every route; the discovery route has no gate.
Pipeline(ep) ==
    CASE ep = "/.well-known/x402"     -> <<"cors", "rateLimit", "discovery">>
      [] ep = "/approval-audit"       -> <<"cors", "rateLimit", "x402", "handler">>
      [] ep = "/exploits"             -> <<"cors", "rateLimit", "validate", "x402", "handler">>
      [] ep = "/risk-score/:protocol" -> <<"cors", "rateLimit", "validate", "x402", "handler">>

\* --------------------------------------------------------------- data shapes

\* PaymentClaim, as parsed from the X-PAYMENT header.
Claim(scheme, network, amount, recipient, signature, resource) ==
    [scheme |-> scheme, network |-> network, amount |-> amount, payer |-> "payer",
     recipient |-> recipient, signature |-> signature, resource |-> resource]

NoClaim == Claim("", "", 0, "", "", <<>>)

Signatures == {"sigA", "sigB"}

\* resource paths a claim may name; a concrete /risk-score/X and the template
\* /risk-score/{protocol} both occur
ClaimResources ==
    {<<"approval-audit">>, <<"exploits">>, <<"risk-score", "{protocol}">>,
     <<"risk-score", "aave">>}

\* VerificationRecord { signature (key), resource, expiresAt }
NoRecord == [present |-> FALSE, resource |-> <<>>, expiresAt |-> 0]

VerificationRecord(resource, expiresAt) ==
    [present |-> TRUE, resource |-> resource, expiresAt |-> expiresAt]

\* ExploitData (index.ts 36-44); timestamps in days
ExploitData(protocol, chain, severity, loss, ts, description) ==
    [protocol |-> protocol, chain |-> chain, severity |-> severity, loss_usd |-> loss,
     timestamp |-> ts, description |-> description, attack_vector |-> "unknown"]

\* what the chain-lookup collaborator answers: {confirmed, amount, recipient} or
\* ChainLookupError
LookupAnswer(confirmed, amount, recipient) ==
    [error |-> FALSE, confirmed |-> confirmed, amount |-> amount, recipient |-> recipient]

LookupError == [error |-> TRUE, confirmed |-> FALSE, amount |-> 0, recipient |-> ""]

\* no lookup was made
NoAnswer == [error |-> FALSE, confirmed |-> FALSE, amount |-> -1, recipient |-> ""]

LookupOutcomes ==
    {LookupError,
     LookupAnswer(FALSE, 0, ""),
     LookupAnswer(TRUE, PRICE_PER_REQUEST_LAMPORTS, PAYMENT_WALLET),
     LookupAnswer(TRUE, PRICE_PER_REQUEST_LAMPORTS - 1, PAYMENT_WALLET),
     LookupAnswer(TRUE, PRICE_PER_REQUEST_LAMPORTS, "other")}

\* what `await dataService.fetchExploits(...)` gives its caller: a list, or an
\* exception
DsReturn(list) == [raised |-> FALSE, value |-> list]

DsRaise == [raised |-> TRUE, value |-> <<>>]

\* --------------------------------------------------- PaymentVerifier (spec 4.1)

\* check (2): the claim's resource matches the resource path, path parameters
\* ignored
ResourceMatches(claimResource, resource) ==
    /\ Len(claimResource) >= Len(resource)
    /\ SubSeq(claimResource, 1, Len(resource)) = resource

\* checks (1)-(4), in order, first failure wins; "ok" when all pass
VerifyStatic(claim, required, resource) ==
    IF ~(claim.scheme = "exact" /\ claim.network = "solana") THEN "UnsupportedSchemeOrNetwork"
    ELSE IF ~ResourceMatches(claim.resource, resource) THEN "ResourceMismatch"
    ELSE IF ~(claim.amount >= required) THEN "InsufficientAmount"
    ELSE IF ~(claim.recipient = PAYMENT_WALLET) THEN "WrongRecipient"
    ELSE "ok"

\* check (5), on the chain lookup's answer
VerifyOnChain(answer, required) ==
    IF answer.error THEN "ChainLookupUnavailable"
    ELSE IF answer.confirmed /\ answer.amount >= required
                             /\ answer.recipient = PAYMENT_WALLET THEN "ok"
    ELSE "UnconfirmedOrUnknownSignature"

\* ------------------------------------------------------- PaymentGate (spec 4.2)

\* the signature has an unexpired record, verified against this resource
CacheHit(cache, signature, resource, now) ==
    /\ cache[signature].present
    /\ cache[signature].resource = resource
    /\ now < cache[signature].expiresAt

\* variant: an unexpired record is left as it is (first write wins)
CacheUpsert_FirstWins(cache, signature, resource, now) ==
    IF cache[signature].present /\ now < cache[signature].expiresAt THEN cache
    ELSE [cache EXCEPT ![signature] = VerificationRecord(resource, now + VERIFICATION_TTL)]

\* insert/refresh, keyed by signature (last write wins)
CacheUpsert(cache, signature, resource, now) ==
    [cache EXCEPT ![signature] = VerificationRecord(resource, now + VERIFICATION_TTL)]

\* the gate up to its first suspension point
GateSync(q, cache, now) ==
    IF q.header # "claim" THEN [k |-> "reject", reason |-> "MalformedClaim"]
    ELSE IF CacheHit(cache, q.claim.signature, MountResource(q.ep), now)
         THEN [k |-> "proceed", reason |-> ""]
    ELSE LET v == VerifyStatic(q.claim, MountPrice(q.ep), MountResource(q.ep)) IN
         IF v # "ok" THEN [k |-> "reject", reason |-> v]
         ELSE [k |-> "await", reason |-> ""]

\* variant: a failed lookup folded into the generic verification failure
GateStatus_Always402(reason) == 402

\* the status the gate answers a verifier outcome with
GateStatus(reason) == IF reason = "ChainLookupUnavailable" THEN 503 ELSE 402

\* ----------------------------------------------------------- the risk engine
\* calculateRiskScore (index.ts 78-144). Times are whole days; the scores, real
\* numbers in the code, are kept exact as integers counting hundredths; losses
\* are multiples of 1000 USD, so that totalLoss / 10_000_000 * 100 is a whole
\* number of hundredths.

\* Math.round of a number given in hundredths: the nearest integer, halves up
Round(h) == (h + 50) \div 100

Min(a, b) == IF a <= b THEN a ELSE b

RECURSIVE SumLoss(_)
\* exploits.reduce((sum, e) => sum + (e.loss_usd || 0), 0)
SumLoss(exploits) ==
    IF exploits = <<>> THEN 0
    ELSE SumLoss(SubSeq(exploits, 1, Len(exploits) - 1)) + exploits[Len(exploits)].loss_usd

\* variant: the window of recent records a week long
recentExploits_LastWeek(exploits, now) ==
    {i \in 1..Len(exploits) : exploits[i].timestamp > now - 7}

\* exploits.filter(e => new Date(e.timestamp).getTime() > thirtyDaysAgo), as
\* the positions kept
recentExploits(exploits, now) ==
    {i \in 1..Len(exploits) : exploits[i].timestamp > now - 30}

\* variant: the loss score taken over the recent records only
totalLoss_RecentOnly(exploits, now) ==
    LET RECURSIVE Sum(_)
        Sum(i) == IF i = 0 THEN 0
                  ELSE Sum(i - 1) + (IF i \in recentExploits(exploits, now)
                                     THEN exploits[i].loss_usd ELSE 0) IN
    Sum(Len(exploits))

totalLoss(exploits, now) == SumLoss(exploits)

severityDist(exploits) ==
    [sev \in {exploits[i].severity : i \in 1..Len(exploits)} |->
        Cardinality({i \in 1..Len(exploits) : exploits[i].severity = sev})]

\* variant: the frequency score left to grow past 100
exploitFrequencyScore_Uncapped(exploits, now) ==
    1000 * Cardinality(recentExploits(exploits, now))

\* Math.min((recentExploits.length / 10) * 100, 100), in hundredths
exploitFrequencyScore(exploits, now) ==
    Min(1000 * Cardinality(recentExploits(exploits, now)), 10000)

\* variant: the loss score left to grow past 100
totalLossScore_Uncapped(exploits, now) == totalLoss(exploits, now) \div 1000

\* Math.min((totalLoss / 10_000_000) * 100, 100), in hundredths
totalLossScore(exploits, now) == Min(totalLoss(exploits, now) \div 1000, 10000)

\* variant: no record taken as a record of today
daysSinceLatest_NoneIsNow(exploits, now) ==
    IF exploits = <<>> THEN 0 ELSE now - exploits[1].timestamp

\* latestExploit = exploits[0]; 999 when there is none
daysSinceLatest(exploits, now) ==
    IF exploits = <<>> THEN 999 ELSE now - exploits[1].timestamp

\* in hundredths
recencyScore(exploits, now) ==
    IF daysSinceLatest(exploits, now) < 7 THEN 10000
    ELSE IF daysSinceLatest(exploits, now) < 30 THEN 5000
    ELSE 0

\* variant: frequency and recency weighted alike
riskScore_OtherWeights(exploits, now) ==
    (3 * exploitFrequencyScore(exploits, now) + 3 * totalLossScore(exploits, now)
        + 4 * recencyScore(exploits, now)) \div 10

\* exploitFrequencyScore * 0.4 + totalLossScore * 0.3 + recencyScore * 0.3, in
\* hundredths: the three terms are whole numbers of hundredths
riskScore(exploits, now) ==
    (4 * exploitFrequencyScore(exploits, now) + 3 * totalLossScore(exploits, now)
        + 3 * recencyScore(exploits, now)) \div 10

\* the if / else if chain over riskScore
riskLevel(exploits, now) ==
    IF riskScore(exploits, now) >= 7500 THEN "CRITICAL"
    ELSE IF riskScore(exploits, now) >= 5000 THEN "HIGH"
    ELSE IF riskScore(exploits, now) >= 2500 THEN "MEDIUM"
    ELSE "LOW"

recommendation(level) ==
    CASE level = "CRITICAL" -> "AVOID - High exploit risk detected"
      [] level = "HIGH"     -> "CAUTION - Significant security concerns"
      [] level = "MEDIUM"   -> "MONITOR - Some historical issues"
      [] OTHER              -> "ACCEPTABLE - Low risk profile"

\* the RiskScore returned; `now` is the Date.now() the call reads
calculateRiskScore(exploits, protocol, now) ==
    [protocol        |-> protocol,
     score           |-> Round(riskScore(exploits, now)),
     risk_level      |-> riskLevel(exploits, now),
     recent_exploits |-> Cardinality(recentExploits(exploits, now)),
     total_loss_usd  |-> totalLoss(exploits, now),
     recommendation  |-> recommendation(riskLevel(exploits, now)),
     factors         |-> [exploit_frequency     |-> Round(exploitFrequencyScore(exploits, now)),
                          total_loss            |-> Round(totalLossScore(exploits, now)),
                          recency               |-> Round(recencyScore(exploits, now)),
                          severity_distribution |-> severityDist(exploits)]]

\* ------------------------------------------------- request pipeline (index.ts)

Request(ep, method, limited, valid, header, claim) ==
    [ep |-> ep, method |-> method, limited |-> limited, valid |-> valid,
     header |-> header, claim |-> claim]

\* A response under construction: nothing sent yet. replaced notes that the
\* record written for the request took the place of one. sinceVerified and latestAt
\* note what the history says when the request arrives: the half hours since the
\* signature was last verified at this endpoint (-1: not within the last hour),
\* and the endpoint of the signature's latest verification, if that is less than
\* an hour old.
Blank(q, sinceVerified, latestAt) ==
    [req |-> q, status |-> 0, reason |-> "", via |-> "none", lookedUp |-> FALSE,
     answer |-> NoAnswer, passedGate |-> FALSE, handlerRan |-> FALSE,
     dsCalled |-> FALSE, dsRaised |-> FALSE, count |-> 0, score |-> -1, level |-> "",
     accepts |-> <<>>, awaitAt |-> 0, replaced |-> FALSE,
     sinceVerified |-> sinceVerified, latestAt |-> latestAt]

NoResponse == Blank(Request("", "", FALSE, FALSE, "absent", NoClaim), -1, "")

\* fetchKamiyoExploits: the data service's exception is swallowed
\* variant: the wrapper without its catch
fetchKamiyoExploits_Rethrows(ds) == ds

fetchKamiyoExploits(ds) == IF ds.raised THEN DsReturn(<<>>) ELSE DsReturn(ds.value)

\* the route's last callback
Handler(q, r, ds) ==
    LET ran == [r EXCEPT !.handlerRan = TRUE] IN
    IF q.method = "HEAD" \/ q.method = "OPTIONS"
    THEN [ran EXCEPT !.status = 402, !.reason = "bare"]
    ELSE IF q.ep = "/approval-audit"
    THEN [ran EXCEPT !.status = 200]
    ELSE LET exploits == fetchKamiyoExploits(ds)
             called == [ran EXCEPT !.dsCalled = TRUE, !.dsRaised = ds.raised] IN
         IF exploits.raised
         THEN [called EXCEPT !.status = 500, !.reason = "Internal Server Error"]
         ELSE IF q.ep = "/exploits"
         THEN [called EXCEPT !.status = 200, !.count = Len(exploits.value)]
         ELSE LET result == calculateRiskScore(exploits.value, "aave", today) IN
              [called EXCEPT !.status = 200, !.count = Len(exploits.value),
                             !.score = result.score, !.level = result.risk_level]

\* String(n), for a whole number
String(n) == ToString(n)

\* variant: the price reported in SOL
ResourceDescriptor_InSol(ep) ==
    [scheme |-> "exact", network |-> "solana", maxAmountRequired |-> "0.001",
     resource |-> IF ep = "/risk-score/:protocol" THEN <<"risk-score", "{protocol}">>
                  ELSE MountResource(ep),
     payTo |-> PAYMENT_WALLET, maxTimeoutSeconds |-> 300, asset |-> "SOL"]

\* one entry of the discovery document's accepts list (without its
\* description, schema and extra texts)
ResourceDescriptor(ep) ==
    [scheme |-> "exact", network |-> "solana",
     maxAmountRequired |-> String(PRICE_PER_REQUEST_LAMPORTS),
     resource |-> IF ep = "/risk-score/:protocol" THEN <<"risk-score", "{protocol}">>
                  ELSE MountResource(ep),
     payTo |-> PAYMENT_WALLET, maxTimeoutSeconds |-> 300, asset |-> "SOL"]

\* app.all('/.well-known/x402'): 402 with the three descriptors
Discovery(q, r) ==
    [r EXCEPT !.handlerRan = TRUE, !.status = 402, !.reason = "discovery",
              !.accepts = <<ResourceDescriptor("/approval-audit"),
                            ResourceDescriptor("/exploits"),
                            ResourceDescriptor("/risk-score/:protocol")>>]

RECURSIVE RunFrom(_, _, _, _, _, _)
\* the stages of q's route from stage i on, up to the response or a suspension
RunFrom(q, i, r, cache, now, ds) ==
    LET stage == Pipeline(q.ep)[i] IN
    CASE stage = "cors" ->
           IF q.method = "OPTIONS" THEN [r EXCEPT !.status = 204, !.reason = "preflight"]
           ELSE RunFrom(q, i + 1, r, cache, now, ds)
      [] stage = "discovery" -> Discovery(q, r)
      [] stage = "rateLimit" ->
           IF q.limited THEN [r EXCEPT !.status = 429, !.reason = "Too Many Requests"]
           ELSE RunFrom(q, i + 1, r, cache, now, ds)
      [] stage = "validate" ->
           IF ~q.valid THEN [r EXCEPT !.status = 400, !.reason = "Validation Error"]
           ELSE RunFrom(q, i + 1, r, cache, now, ds)
      [] stage = "x402" ->
           LET g == GateSync(q, cache, now) IN
           IF g.k = "reject"
           THEN [r EXCEPT !.status = GateStatus(g.reason), !.reason = g.reason]
           ELSE IF g.k = "proceed"
           THEN RunFrom(q, i + 1, [r EXCEPT !.passedGate = TRUE, !.via = "cache"],
                        cache, now, ds)
           ELSE [r EXCEPT !.awaitAt = i, !.lookedUp = TRUE]
      [] stage = "handler" -> Handler(q, r, ds)

\* ----------------------------------------------------------- gate: actions

Slots == {1, 2}

FreeSlots(S) == {n \in S : pending[n] = NoResponse}

\* what the data service may hand the handler
e1 == ExploitData("aave", "ethereum", "critical", 5000000, 10, "reentrancy")

DsOutcomes == {DsRaise, DsReturn(<<>>), DsReturn(<<e1>>)}

\* the history, as a request with a parsed claim finds it
SinceVerified(q) ==
    IF q.header = "claim" /\ q.ep \in Endpoints /\ verifiedLog[q.claim.signature][q.ep] >= 0
    THEN gateNow - verifiedLog[q.claim.signature][q.ep]
    ELSE -1

LatestAt(q) ==
    IF /\ q.header = "claim"
       /\ latestVerified[q.claim.signature] # ""
       /\ verifiedLog[q.claim.signature][latestVerified[q.claim.signature]] >= 0
    THEN latestVerified[q.claim.signature]
    ELSE ""

\* A request arrives and runs until its response is sent or the gate suspends it
\* on the chain lookup.
Receive(q, S, D) ==
    /\ \E ds \in D :
        LET r == RunFrom(q, 1, Blank(q, SinceVerified(q), LatestAt(q)),
                         verifCache, gateNow, ds) IN
        IF r.awaitAt > 0
        THEN /\ FreeSlots(S) # {}
             /\ LET n == CHOOSE m \in FreeSlots(S) : \A j \in FreeSlots(S) : m <= j IN
                pending' = [pending EXCEPT ![n] = r]
             /\ UNCHANGED <<gateNow, verifCache, last, verifiedLog, latestVerified>>
        ELSE /\ last' = r
             /\ UNCHANGED <<gateNow, verifCache, pending, verifiedLog, latestVerified>>
    /\ UNCHANGED <<dsVars, engineVars>>

\* The chain lookup of a suspended request answers: the gate rejects, or records
\* the verification and lets the rest of the route run.
LookupReturns(n, D) ==
    /\ pending[n] # NoResponse
    /\ \E answer \in LookupOutcomes, ds \in D :
        LET p == [pending[n] EXCEPT !.answer = answer, !.awaitAt = 0]
            v == VerifyOnChain(answer, MountPrice(p.req.ep)) IN
        IF v # "ok"
        THEN /\ last' = [p EXCEPT !.status = GateStatus(v), !.reason = v]
             /\ UNCHANGED <<verifCache, verifiedLog, latestVerified>>
        ELSE /\ verifCache' = CacheUpsert(verifCache, p.req.claim.signature,
                                          MountResource(p.req.ep), gateNow)
             /\ last' = RunFrom(p.req, pending[n].awaitAt + 1,
                                [p EXCEPT !.passedGate = TRUE, !.via = "verified",
                                          !.replaced =
                                              verifCache[p.req.claim.signature].present],
                                verifCache', gateNow, ds)
             /\ verifiedLog' =
                    [verifiedLog EXCEPT ![p.req.claim.signature][p.req.ep] = gateNow]
             /\ latestVerified' =
                    [latestVerified EXCEPT ![p.req.claim.signature] = p.req.ep]
    /\ pending' = [pending EXCEPT ![n] = NoResponse]
    /\ UNCHANGED gateNow
    /\ UNCHANGED <<dsVars, engineVars>>

\* Half an hour passes.
GateTick ==
    /\ gateNow < MaxGateClock
    /\ gateNow' = gateNow + 1
    /\ verifiedLog' =
        [s \in Signatures |-> [ep \in Endpoints |->
            IF verifiedLog[s][ep] >= 0 /\ gateNow' - verifiedLog[s][ep] < OneHour
            THEN verifiedLog[s][ep] ELSE -1]]
    /\ UNCHANGED <<verifCache, pending, last, latestVerified>>
    /\ UNCHANGED <<dsVars, engineVars>>

\* ------------------------------------------------ the resilient data service

Sources == {"srcA", "srcB"}

FAILURE_THRESHOLD == 3

\* 60 s, in half minutes
COOLDOWN == 2

\* the result cache's short TTL: two minutes
RESULT_TTL == 4

\* fetchExploits calls that may overlap
FetchSlots == {1, 2}

\* request shapes `protocol|chain`
Keys == {"aave|ethereum", "|"}

\* CircuitState of one source
CircuitState(status, failures, openedAt) ==
    [status |-> status, consecutiveFailures |-> failures, openedAt |-> openedAt]

ClosedCircuit == CircuitState("CLOSED", 0, 0)

CooldownElapsed(c, now) == now - c.openedAt >= COOLDOWN

\* variant: OPEN sources queried like CLOSED ones
Admit_IgnoresOpen(c, now) ==
    [call |-> c.status # "HALF_OPEN", next |-> c]

\* variant: every fan-out that finds the circuit HALF_OPEN sends a trial
Admit_TrialForAll(c, now) ==
    CASE c.status = "CLOSED" -> [call |-> TRUE, next |-> c]
      [] c.status = "OPEN" /\ CooldownElapsed(c, now)
            -> [call |-> TRUE, next |-> [c EXCEPT !.status = "HALF_OPEN"]]
      [] c.status = "HALF_OPEN" -> [call |-> TRUE, next |-> c]
      [] OTHER -> [call |-> FALSE, next |-> c]

\* whether a fan-out queries the source, and the state it leaves the circuit in:
\* a CLOSED source is queried; an OPEN one is skipped until its cooldown has
\* elapsed, when the circuit turns HALF_OPEN and this call is its one trial
Admit(c, now) ==
    CASE c.status = "CLOSED" -> [call |-> TRUE, next |-> c]
      [] c.status = "OPEN" /\ CooldownElapsed(c, now)
            -> [call |-> TRUE, next |-> [c EXCEPT !.status = "HALF_OPEN"]]
      [] OTHER -> [call |-> FALSE, next |-> c]

\* a call to the source answered; an answer to a call issued before the circuit
\* opened changes nothing
RecordSuccess(c) == IF c.status = "OPEN" THEN c ELSE ClosedCircuit

\* variant: the circuit opens on the second consecutive failure
RecordFailure_Threshold2(c, now) ==
    CASE c.status = "CLOSED" ->
            IF c.consecutiveFailures + 1 >= 2
            THEN CircuitState("OPEN", c.consecutiveFailures + 1, now)
            ELSE CircuitState("CLOSED", c.consecutiveFailures + 1, 0)
      [] c.status = "HALF_OPEN" -> CircuitState("OPEN", c.consecutiveFailures, now)
      [] OTHER -> c

\* a call to the source failed or timed out
RecordFailure(c, now) ==
    CASE c.status = "CLOSED" ->
            IF c.consecutiveFailures + 1 >= FAILURE_THRESHOLD
            THEN CircuitState("OPEN", c.consecutiveFailures + 1, now)
            ELSE CircuitState("CLOSED", c.consecutiveFailures + 1, 0)
      [] c.status = "HALF_OPEN" -> CircuitState("OPEN", c.consecutiveFailures, now)
      [] OTHER -> c

\* the stable identity of a record
Identity(e) == <<e.protocol, e.chain, e.timestamp, e.description>>

RECURSIVE Dedupe(_)
\* keeps, of the records of one identity, the one merged first
Dedupe(seq) ==
    IF seq = <<>> THEN <<>>
    ELSE LET rest == Dedupe(SubSeq(seq, 1, Len(seq) - 1))
             e    == seq[Len(seq)] IN
         IF \E k \in 1..Len(rest) : Identity(rest[k]) = Identity(e)
         THEN rest
         ELSE Append(rest, e)

InsertByTime(e, sorted) ==
    LET k == Cardinality({i \in 1..Len(sorted) : sorted[i].timestamp >= e.timestamp}) IN
    SubSeq(sorted, 1, k) \o <<e>> \o SubSeq(sorted, k + 1, Len(sorted))

\* variant: records returned in completion order
SortNewestFirst_None(seq) == seq

RECURSIVE SortNewestFirst(_)
\* by timestamp, descending
SortNewestFirst(seq) ==
    IF seq = <<>> THEN <<>>
    ELSE InsertByTime(seq[Len(seq)], SortNewestFirst(SubSeq(seq, 1, Len(seq) - 1)))

Merge(acc) == SortNewestFirst(Dedupe(acc))

\* an entry of the result cache
NoEntry == [present |-> FALSE, value |-> <<>>, expiresAt |-> 0]

CacheEntry(value, expiresAt) == [present |-> TRUE, value |-> value, expiresAt |-> expiresAt]

\* a fetchExploits call between its fan-out and its return: what became of each
\* source this round, and the records received so far, in completion order
NoFetch == [active |-> FALSE, key |-> "", calls |-> [s \in Sources |-> "skipped"],
            acc |-> <<>>]

Fetch(key, calls, acc) == [active |-> TRUE, key |-> key, calls |-> calls, acc |-> acc]

\* a returned call of fetchKamiyoExploits: what fetchExploits gave, and what
\* the wrapper made of it
Returned(key, fromCache, calls, out) ==
    [done |-> TRUE, key |-> key, fromCache |-> fromCache, calls |-> calls,
     raised |-> out.raised, value |-> out.value,
     wrapped |-> fetchKamiyoExploits(out)]

NoReturn ==
    [done |-> FALSE, key |-> "", fromCache |-> FALSE, calls |-> [s \in Sources |-> "skipped"],
     raised |-> FALSE, value |-> <<>>, wrapped |-> DsReturn(<<>>)]

\* the records the sources hold: rNewCopy is rNew as the other source reports it
rOld == ExploitData("aave", "ethereum", "high", 100, 3, "oracle")

rNew == ExploitData("aave", "ethereum", "critical", 500, 5, "reentrancy")

rNewCopy == ExploitData("aave", "ethereum", "high", 400, 5, "reentrancy")

\* what a source may answer with
SourceReplies(s) ==
    IF s = "srcA" THEN {<<rOld, rNew>>} ELSE {<<rNewCopy, rOld>>}

LastTwo(seq) == IF Len(seq) > 2 THEN SubSeq(seq, Len(seq) - 1, Len(seq)) ELSE seq

\* fetchExploits has every answer of its round: it merges what it received,
\* refreshes the result cache if any source responded, and returns. `fault` is
\* an unexpected exception while merging.
Finish(f, key, calls, acc, fault) ==
    LET responded == \E s \in Sources : calls[s] = "ok"
        out == IF fault THEN DsRaise ELSE DsReturn(Merge(acc)) IN
    /\ lastFetch' = Returned(key, FALSE, calls, out)
    /\ resultCache' = IF responded /\ ~fault
                      THEN [resultCache EXCEPT ![key] =
                                CacheEntry(out.value, dsNow + RESULT_TTL)]
                      ELSE resultCache
    /\ fetches' = [fetches EXCEPT ![f] = NoFetch]

\* fetchKamiyoExploits(protocol, chain) calls dataService.fetchExploits: a fresh
\* cache entry is returned as it is; otherwise the sources this round admits
\* are queried concurrently
FetchExploits(key) ==
    /\ \E f \in FetchSlots :
        /\ ~fetches[f].active
        /\ \A g \in FetchSlots : ~fetches[g].active => f <= g
        /\ LET entry == resultCache[key] IN
           IF entry.present /\ dsNow < entry.expiresAt
           THEN /\ lastFetch' = Returned(key, TRUE, NoFetch.calls, DsReturn(entry.value))
                /\ UNCHANGED <<circuit, resultCache, fetches>>
           ELSE LET adm   == [s \in Sources |-> Admit(circuit[s], dsNow)]
                    calls == [s \in Sources |->
                                 IF adm[s].call THEN "inflight" ELSE "skipped"] IN
                /\ circuit' = [s \in Sources |-> adm[s].next]
                /\ IF \E s \in Sources : adm[s].call
                   THEN /\ fetches' = [fetches EXCEPT ![f] = Fetch(key, calls, <<>>)]
                        /\ lastFetch' = NoReturn
                        /\ UNCHANGED resultCache
                   ELSE Finish(f, key, calls, <<>>, FALSE)
    /\ UNCHANGED <<dsNow, recent>>
    /\ UNCHANGED <<gateVars, engineVars>>

\* one source's call of a round answers with records, or fails; the last answer
\* of a round completes the fetchExploits call
SourceReturns(f, s, ok, reply) ==
    /\ fetches[f].active
    /\ fetches[f].calls[s] = "inflight"
    /\ circuit' = [circuit EXCEPT ![s] =
                      IF ok THEN RecordSuccess(@) ELSE RecordFailure(@, dsNow)]
    /\ recent' = [recent EXCEPT ![s] = LastTwo(Append(@, ok))]
    /\ LET calls == [fetches[f].calls EXCEPT ![s] = IF ok THEN "ok" ELSE "failed"]
           acc   == fetches[f].acc \o reply IN
       IF \E t \in Sources : calls[t] = "inflight"
       THEN /\ fetches' = [fetches EXCEPT ![f] = Fetch(fetches[f].key, calls, acc)]
            /\ lastFetch' = NoReturn
            /\ UNCHANGED resultCache
       ELSE \E fault \in (IF \E t \in Sources : calls[t] = "ok" THEN BOOLEAN ELSE {FALSE}) :
                Finish(f, fetches[f].key, calls, acc, fault)
    /\ UNCHANGED dsNow
    /\ UNCHANGED <<gateVars, engineVars>>

SourceSucceeds ==
    \E f \in FetchSlots, s \in Sources : \E reply \in SourceReplies(s) :
        SourceReturns(f, s, TRUE, reply)

SourceFails ==
    \E f \in FetchSlots, s \in Sources : SourceReturns(f, s, FALSE, <<>>)

\* half a minute passes; every outbound call times out well within it
DsTick ==
    /\ dsNow < MaxDsClock
    /\ \A f \in FetchSlots : ~fetches[f].active
    /\ dsNow' = dsNow + 1
    /\ lastFetch' = NoReturn
    /\ UNCHANGED <<circuit, resultCache, fetches, recent>>
    /\ UNCHANGED <<gateVars, engineVars>>

DsInit ==
    /\ dsNow = 0
    /\ circuit = [s \in Sources |-> ClosedCircuit]
    /\ resultCache = [k \in Keys |-> NoEntry]
    /\ fetches = [f \in FetchSlots |-> NoFetch]
    /\ lastFetch = NoReturn
    /\ recent = [s \in Sources |-> <<>>]

\* ------------------------------------------- the risk engine: evaluations

\* one call of calculateRiskScore: its arguments, the Date.now() it read, its
\* result
Evaluation(exploits, protocol, now) ==
    [done |-> TRUE, exploits |-> exploits, protocol |-> protocol, at |-> now,
     out |-> calculateRiskScore(exploits, protocol, now)]

NoEvaluation ==
    [done |-> FALSE, exploits |-> <<>>, protocol |-> "", at |-> 0,
     out |-> calculateRiskScore(<<>>, "", 0)]

\* the exploit histories scored: up to two records of any age and loss, then
\* up to MaxRepeat records alike
Losses == {0, 160000, 1600000, 5000000, -1600000}

SeverityOf(loss) ==
    CASE loss = 0       -> "low"
      [] loss = 160000  -> "medium"
      [] loss = 1600000 -> "high"
      [] OTHER          -> "critical"

HeadRecords ==
    {ExploitData("aave", "ethereum", SeverityOf(l), l, t, "incident") :
        l \in Losses, t \in {-5, -28, -100}}

Fillers ==
    {ExploitData("aave", "ethereum", "low", 0, -5, "incident"),
     ExploitData("aave", "ethereum", "critical", 5000000, -5, "incident"),
     ExploitData("aave", "ethereum", "critical", 5000000, -100, "incident")}

Repeat(e, k) == [i \in 1..k |-> e]

RiskInputs ==
    {h \o Repeat(f, k) :
        h \in {<<>>} \cup {<<a>> : a \in HeadRecords}
                     \cup {<<a, b>> : a \in HeadRecords, b \in HeadRecords},
        f \in Fillers, k \in 0..MaxRepeat}

\* a paid /risk-score request has the protocol's exploits scored (index.ts
\* 402-403); a behaviour follows one exploit history
Score(exploits) ==
    /\ ~riskLast.done
    /\ riskLast' = Evaluation(exploits, "aave", today)
    /\ riskPrev' = NoEvaluation
    /\ UNCHANGED <<today, detection>>
    /\ UNCHANGED <<gateVars, dsVars>>

\* the same exploits are scored once more
ScoreAgain ==
    /\ riskLast.done
    /\ riskPrev' = riskLast
    /\ riskLast' = Evaluation(riskLast.exploits, riskLast.protocol, today)
    /\ UNCHANGED <<today, detection>>
    /\ UNCHANGED <<gateVars, dsVars>>

\* a day passes
EngineTick ==
    /\ today < MaxToday
    /\ ~detection.running
    /\ today' = today + 1
    /\ UNCHANGED <<riskLast, riskPrev, detection>>
    /\ UNCHANGED <<gateVars, dsVars>>

\* --------------------------------------------------------- the risk detector
\* RiskDetector (services/risk-detector.ts). Dates are whole days.

\* TokenApproval
TokenApproval(token, spender, unlimited, updated) ==
    [token_address |-> token, token_symbol |-> "TKN", spender_address |-> spender,
     allowance |-> "1", is_unlimited |-> unlimited, last_updated |-> updated]

\* RiskFlag, without its description text
RiskFlag(type, severity) == [type |-> type, severity |-> severity]

staleThresholdDays == 180

\* variant: the router table with a lower-case spelling as well
protocolMap_AnyCase ==
    "0x7a250d5630B4cF539739dF2C5dAcb4c659F2488D" :> "uniswap-v2" @@
    "0x7a250d5630b4cf539739df2c5dacb4c659f2488d" :> "uniswap-v2" @@
    "0xE592427A0AEce92De3Edee1F18E0157C05861564" :> "uniswap-v3" @@
    "0x68b3465833fb72A70ecDF485E0e4C7bD8665Fc45" :> "uniswap" @@
    "0xd9e1cE17f2641f24aE83637ab66a2cca9C378B9F" :> "sushiswap" @@
    "0x1111111254fb6c44bAC0beD2854e76F90643097d" :> "1inch" @@
    "0xDef1C0ded9bec7F1a1670819833240f027b25EfF" :> "0x"

\* the router table of checkProtocolExploitHistory
protocolMap ==
    "0x7a250d5630B4cF539739dF2C5dAcb4c659F2488D" :> "uniswap-v2" @@
    "0xE592427A0AEce92De3Edee1F18E0157C05861564" :> "uniswap-v3" @@
    "0x68b3465833fb72A70ecDF485E0e4C7bD8665Fc45" :> "uniswap" @@
    "0xd9e1cE17f2641f24aE83637ab66a2cca9C378B9F" :> "sushiswap" @@
    "0x1111111254fb6c44bAC0beD2854e76F90643097d" :> "1inch" @@
    "0xDef1C0ded9bec7F1a1670819833240f027b25EfF" :> "0x"

\* the spender addresses met: a router as the table spells it, the same router
\* in lower case, and an address that is no router, in two spellings
Spenders ==
    {"0x7a250d5630B4cF539739dF2C5dAcb4c659F2488D",
     "0x7a250d5630b4cf539739df2c5dacb4c659f2488d",
     "0xBadC0de000000000000000000000000000000001",
     "0xbadc0de000000000000000000000000000000001"}

\* variant: addresses compared as written
toLowerCase_AsWritten(address) == address

\* String.prototype.toLowerCase, on the addresses met
toLowerCase(address) ==
    CASE address = "0x7a250d5630B4cF539739dF2C5dAcb4c659F2488D"
            -> "0x7a250d5630b4cf539739df2c5dacb4c659f2488d"
      [] address = "0xBadC0de000000000000000000000000000000001"
            -> "0xbadc0de000000000000000000000000000000001"
      [] OTHER -> address

\* getDaysSince(dateString)
getDaysSince(date, now) == now - date

\* the key `${approval.token_address}-${approval.spender_address}`: addresses
\* hold no "-", so the key is the pair
RiskKey(approval) == <<approval.token_address, approval.spender_address>>

EmptyMap == [k \in {} |-> <<>>]

\* variant: a key's flags added to those it holds
MapSet_Merging(map, key, value) ==
    [k \in DOMAIN map \cup {key} |->
        IF k # key THEN map[k]
        ELSE IF key \in DOMAIN map THEN map[key] \o value ELSE value]

\* riskMap[key] = risks
MapSet(map, key, value) ==
    [k \in DOMAIN map \cup {key} |-> IF k = key THEN value ELSE map[k]]

\* no call of fetchExploits was made
NotFetched == [raised |-> FALSE, value |-> <<>>, fetched |-> FALSE]

Fetched(ds) == [raised |-> ds.raised, value |-> ds.value, fetched |-> TRUE]

\* variant: exploits of any age counted as recent
recentWindow_Unbounded(exploits, now) == 1..Len(exploits)

\* exploits.filter(e => new Date(e.timestamp).getTime() > ninetyDaysAgo), as
\* the positions kept
recentWindow(exploits, now) ==
    {i \in 1..Len(exploits) : exploits[i].timestamp > now - 90}

\* checkProtocolExploitHistory(spenderAddress): the flag, or none (null), given
\* what fetchExploits answered when it was called
checkProtocolExploitHistory(spenderAddress, answer, now) ==
    IF spenderAddress \notin DOMAIN protocolMap THEN <<>>
    ELSE IF answer.raised THEN <<>>
    ELSE IF Len(answer.value) = 0 THEN <<>>
    ELSE IF recentWindow(answer.value, now) # {}
         THEN IF \E i \in recentWindow(answer.value, now) :
                    answer.value[i].severity \in {"critical", "high"}
              THEN <<RiskFlag("exploited_protocol", "critical")>>
              ELSE <<RiskFlag("exploited_protocol", "high")>>
    ELSE <<RiskFlag("exploited_protocol", "medium")>>

\* variant: an approval of exactly the threshold age counted as stale
staleRisk_AtThreshold(approval, now) ==
    IF getDaysSince(approval.last_updated, now) >= staleThresholdDays
    THEN <<RiskFlag("stale", "medium")>> ELSE <<>>

staleRisk(approval, now) ==
    IF getDaysSince(approval.last_updated, now) > staleThresholdDays
    THEN <<RiskFlag("stale", "medium")>> ELSE <<>>

\* variant: an approval whose exploit check raised loses all its flags
risksOf_LostOnRaise(approval, answer, scam, now) ==
    IF answer.raised THEN <<>>
    ELSE (IF approval.is_unlimited THEN <<RiskFlag("unlimited", "high")>> ELSE <<>>)
         \o staleRisk(approval, now)
         \o checkProtocolExploitHistory(approval.spender_address, answer, now)
         \o (IF toLowerCase(approval.spender_address) \in scam
             THEN <<RiskFlag("suspicious_spender", "critical")>> ELSE <<>>)

\* the risks pushed for one approval, in the order of the loop body
risksOf(approval, answer, scam, now) ==
    (IF approval.is_unlimited THEN <<RiskFlag("unlimited", "high")>> ELSE <<>>)
    \o staleRisk(approval, now)
    \o checkProtocolExploitHistory(approval.spender_address, answer, now)
    \o (IF toLowerCase(approval.spender_address) \in scam
        THEN <<RiskFlag("suspicious_spender", "critical")>> ELSE <<>>)

\* variant: every approval given a key
recordRisks_Always(map, approval, risks) == MapSet(map, RiskKey(approval), risks)

\* if (risks.length > 0) riskMap[key] = risks
recordRisks(map, approval, risks) ==
    IF Len(risks) > 0 THEN MapSet(map, RiskKey(approval), risks) ELSE map

\* a call of detectRisks: its argument, the approval its loop is at, the riskMap
\* so far; as history, the day of the call, the risks found for each approval
\* and what fetchExploits answered for it; the detector's deny-list and, as
\* history, the addresses addScamAddress was given
Detection(running, approvals, next, riskMap, found, answers, scam, at, added) ==
    [running |-> running, approvals |-> approvals, next |-> next,
     riskMap |-> riskMap, found |-> found, answers |-> answers,
     knownScamAddresses |-> scam, at |-> at, added |-> added]

\* what the data service may hold of a protocol: records in and out of the last
\* 90 days, of every severity; xEdge turns 90 days old on day 1
xCritical == ExploitData("uniswap-v2", "ethereum", "critical", 5000000, -10, "drain")

xLow == ExploitData("uniswap-v2", "ethereum", "low", 1000, -10, "dust")

xMedium == ExploitData("uniswap-v2", "ethereum", "medium", 1000, -20, "phishing")

xEdge == ExploitData("uniswap-v2", "ethereum", "high", 160000, -89, "oracle")

xOld == ExploitData("uniswap-v2", "ethereum", "critical", 5000000, -200, "reentrancy")

DetectorAnswers ==
    {DsRaise, DsReturn(<<>>), DsReturn(<<xOld>>), DsReturn(<<xLow>>),
     DsReturn(<<xOld, xMedium>>), DsReturn(<<xEdge>>), DsReturn(<<xLow, xCritical>>)}

Tokens == {"0xdAC17F958D2ee523a2206206994597C13D831ec7",
           "0xA0b86991c6218b36c1d19D4a2e9Eb0cE3606eB48"}

Approvals ==
    {TokenApproval(t, s, u, d) :
        t \in Tokens, s \in Spenders, u \in BOOLEAN, d \in {-200, -180}}

RECURSIVE SeqsUpTo(_, _)
\* the sequences over S of length up to n
SeqsUpTo(S, n) ==
    IF n = 0 THEN {<<>>}
    ELSE LET shorter == SeqsUpTo(S, n - 1) IN
         shorter \cup {Append(q, x) : q \in shorter, x \in S}

\* detectRisks(approvals) is called: the loop starts; a behaviour follows the
\* approvals of one wallet, which may be audited again
detectRisks(approvals) ==
    /\ ~detection.running
    /\ detection.approvals = <<>> \/ approvals = detection.approvals
    /\ detection' = Detection(Len(approvals) > 0, approvals, 1, EmptyMap, <<>>, <<>>,
                              detection.knownScamAddresses, today, detection.added)
    /\ UNCHANGED <<today, riskLast, riskPrev>>
    /\ UNCHANGED <<gateVars, dsVars>>

\* one turn of the loop: the approval's checks, with fetchExploits answering
\* when the spender is a router of the table; after the last approval the
\* riskMap is returned
DetectStep(answer) ==
    /\ detection.running
    /\ LET approval == detection.approvals[detection.next]
           risks    == risksOf(approval, answer, detection.knownScamAddresses, today) IN
       /\ answer.fetched <=> approval.spender_address \in DOMAIN protocolMap
       /\ detection' = Detection(detection.next < Len(detection.approvals),
                                 detection.approvals,
                                 detection.next + 1,
                                 recordRisks(detection.riskMap, approval, risks),
                                 Append(detection.found, risks),
                                 Append(detection.answers, answer),
                                 detection.knownScamAddresses,
                                 detection.at,
                                 detection.added)
    /\ UNCHANGED <<today, riskLast, riskPrev>>
    /\ UNCHANGED <<gateVars, dsVars>>

\* addScamAddress(address), for an address the deny-list does not hold yet
addScamAddress(address) ==
    /\ toLowerCase(address) \notin detection.knownScamAddresses
    /\ detection' = [detection EXCEPT !.knownScamAddresses = @ \cup {toLowerCase(address)},
                                      !.added = @ \cup {address}]
    /\ UNCHANGED <<today, riskLast, riskPrev>>
    /\ UNCHANGED <<gateVars, dsVars>>

EngineInit ==
    /\ today = 0
    /\ riskLast = NoEvaluation
    /\ riskPrev = NoEvaluation
    /\ detection = Detection(FALSE, <<>>, 1, EmptyMap, <<>>, <<>>, {}, 0, {})

GateInit ==
    /\ gateNow = 0
    /\ verifCache = [s \in Signatures |-> NoRecord]
    /\ pending = [n \in Slots |-> NoResponse]
    /\ last = NoResponse
    /\ verifiedLog = [s \in Signatures |-> [ep \in Endpoints |-> -1]]
    /\ latestVerified = [s \in Signatures |-> ""]

Init == GateInit /\ DsInit /\ EngineInit

\* ------------------------------------- specification: the request pipeline

\* the well-formed, sufficient claim for an endpoint's resource
PaidClaim(ep, signature) ==
    Claim("exact", "solana", PRICE_PER_REQUEST_LAMPORTS, PAYMENT_WALLET, signature,
          IF ep = "/risk-score/:protocol" THEN <<"risk-score", "aave">>
          ELSE MountResource(ep))

PipelineRequests ==
    {Request(ep, m, l, v, "claim", PaidClaim(ep, "sigA")) :
        ep \in Endpoints, m \in {"GET", "HEAD"}, l \in BOOLEAN, v \in BOOLEAN}
    \cup
    {Request(ep, m, l, v, h, NoClaim) :
        ep \in Endpoints, m \in {"GET", "HEAD"}, l \in BOOLEAN, v \in BOOLEAN,
        h \in {"absent", "garbage"}}

PipelineReceive == \E q \in PipelineRequests : Receive(q, {1}, DsOutcomes)

PipelineLookupReturns == LookupReturns(1, DsOutcomes)

PipelineNext == PipelineReceive \/ PipelineLookupReturns

SpecPipeline == Init /\ [][PipelineNext]_vars

\* ---------------------------------- specification: every route, every method

\* the discovery route under every method and payment header, the priced
\* routes under GET and the two bodyless methods, paid or not
ProbeRequests ==
    {Request("/.well-known/x402", m, l, TRUE, h, c) :
        m \in {"GET", "POST", "HEAD", "OPTIONS"}, l \in BOOLEAN,
        h \in {"claim", "absent"}, c \in {PaidClaim("/exploits", "sigA")}}
    \cup
    {Request(ep, m, l, v, "claim", PaidClaim(ep, "sigA")) :
        ep \in Endpoints, m \in {"GET", "HEAD", "OPTIONS"}, l \in BOOLEAN, v \in BOOLEAN}
    \cup
    {Request(ep, m, l, v, "absent", NoClaim) :
        ep \in Endpoints, m \in {"GET", "HEAD", "OPTIONS"}, l \in BOOLEAN, v \in BOOLEAN}

ProbeReceive == \E q \in ProbeRequests : Receive(q, {1}, DsOutcomes)

ProbeLookupReturns == LookupReturns(1, DsOutcomes)

ProbeNext == ProbeReceive \/ ProbeLookupReturns

SpecProbe == Init /\ [][ProbeNext]_vars

\* ------------------------------------------- specification: the gate's cache

\* each signature presented to either data endpoint, naming either's resource
GateEndpoints == {"/exploits", "/risk-score/:protocol"}

GateRequests ==
    {Request(ep, "GET", FALSE, TRUE, "claim", PaidClaim(res, s)) :
        ep \in GateEndpoints, res \in GateEndpoints, s \in Signatures}

GateReceive == \E q \in GateRequests : Receive(q, {1}, {DsReturn(<<>>)})

GateLookupReturns == LookupReturns(1, {DsReturn(<<>>)})

GateNext == GateReceive \/ GateLookupReturns \/ GateTick

SpecGate == Init /\ [][GateNext]_vars

\* ------------------------------------ specification: overlapping requests

\* paid requests to /exploits, two of which may be in the gate at once
RaceRequests ==
    {Request("/exploits", "GET", FALSE, TRUE, "claim", PaidClaim("/exploits", s)) :
        s \in Signatures}

RaceReceive == \E q \in RaceRequests : Receive(q, Slots, {DsReturn(<<>>)})

RaceLookupReturns == \E n \in Slots : LookupReturns(n, {DsReturn(<<>>)})

RaceNext == RaceReceive \/ RaceLookupReturns \/ GateTick

SpecRace == Init /\ [][RaceNext]_vars

\* --------------------------------------------- specification: the verifier

\* every claim over the fields the verifier reads, for one signature
VerifyClaims ==
    {Claim(sc, nw, am, rc, "sigA", res) :
        sc \in {"exact", "upto"}, nw \in {"solana", "base"},
        am \in {PRICE_PER_REQUEST_LAMPORTS - 1, PRICE_PER_REQUEST_LAMPORTS,
                PRICE_PER_REQUEST_LAMPORTS + 1},
        rc \in {PAYMENT_WALLET, "other"}, res \in ClaimResources}

VerifyRequests ==
    {Request(ep, "GET", FALSE, TRUE, "claim", c) : ep \in Endpoints, c \in VerifyClaims}

VerifyReceive == \E q \in VerifyRequests : Receive(q, {1}, {DsReturn(<<>>)})

VerifyLookupReturns == LookupReturns(1, {DsReturn(<<>>)})

VerifyNext == VerifyReceive \/ VerifyLookupReturns

SpecVerify == Init /\ [][VerifyNext]_vars

\* ----------------------------------------- specification: the data service

DataNext == (\E key \in Keys : FetchExploits(key)) \/ SourceSucceeds \/ SourceFails \/ DsTick

SpecData == Init /\ [][DataNext]_vars

\* ------------------------------------------- specification: the risk engine

ScoreNext == (\E exploits \in RiskInputs : Score(exploits)) \/ ScoreAgain \/ EngineTick

SpecScore == Init /\ [][ScoreNext]_vars

\* ----------------------------------------- specification: the risk detector

DetectNext ==
    \/ \E approvals \in SeqsUpTo(Approvals, MaxApprovals) : detectRisks(approvals)
    \/ \E answer \in {NotFetched} \cup {Fetched(ds) : ds \in DetectorAnswers} :
            DetectStep(answer)
    \/ \E address \in {toLowerCase(a) : a \in Spenders} : addScamAddress(address)
    \/ EngineTick

SpecDetect == Init /\ [][DetectNext]_vars

\* ------------------------------------------- specification: the deny-list

\* approvals that differ in their spender only, none unlimited, none stale on
\* the first day
DenyApprovals ==
    {TokenApproval("0xdAC17F958D2ee523a2206206994597C13D831ec7", s, FALSE, -180) :
        s \in Spenders}

\* addresses are added in either letter case, between and during audits
DenyNext ==
    \/ \E approvals \in SeqsUpTo(DenyApprovals, MaxApprovals) : detectRisks(approvals)
    \/ \E answer \in {NotFetched} \cup {Fetched(ds) : ds \in DetectorAnswers} :
            DetectStep(answer)
    \/ \E address \in Spenders : addScamAddress(address)
    \/ EngineTick

SpecDeny == Init /\ [][DenyNext]_vars

\* ------------------------------------------------------------ claims C1-C5

\* a response has been sent
Responded == last.status # 0

\* the request was not turned away ahead of the gate
ReachedGate(r) ==
    /\ ~r.req.limited
    /\ r.req.valid \/ r.req.ep = "/approval-audit"

\* the claim's resource names the endpoint (path parameters aside)
NamesEndpoint(resource, ep) ==
    /\ Len(resource) >= 1
    /\ resource[1] = (CASE ep = "/approval-audit"       -> "approval-audit"
                        [] ep = "/exploits"             -> "exploits"
                        [] ep = "/risk-score/:protocol" -> "risk-score"
                        [] OTHER                        -> "")

Violates(k, r) ==
    CASE k = 1 -> ~(r.req.claim.scheme = "exact" /\ r.req.claim.network = "solana")
      [] k = 2 -> ~NamesEndpoint(r.req.claim.resource, r.req.ep)
      [] k = 3 -> r.req.claim.amount < PRICE_PER_REQUEST_LAMPORTS
      [] k = 4 -> r.req.claim.recipient # PAYMENT_WALLET
      [] k = 5 -> /\ r.answer # NoAnswer
                  /\ ~r.answer.error
                  /\ ~(r.answer.confirmed /\ r.answer.amount >= PRICE_PER_REQUEST_LAMPORTS
                                          /\ r.answer.recipient = PAYMENT_WALLET)

CheckName(k) ==
    CASE k = 1 -> "UnsupportedSchemeOrNetwork"
      [] k = 2 -> "ResourceMismatch"
      [] k = 3 -> "InsufficientAmount"
      [] k = 4 -> "WrongRecipient"
      [] k = 5 -> "UnconfirmedOrUnknownSignature"

\* what C2 says of a response to a request that carried a claim
GateDecidesByChecks(r) ==
    /\ ((\A k \in 1..5 : ~Violates(k, r)) /\ r.answer # NoAnswer /\ ~r.answer.error)
            => r.passedGate
    /\ \A k \in 1..5 :
            (Violates(k, r) /\ \A j \in 1..(k - 1) : ~Violates(j, r)) =>
                /\ r.status = 402
                /\ r.reason = CheckName(k)
                /\ ~r.passedGate
                /\ (k < 5 => ~r.lookedUp)

C4_CacheHonoredPerResource ==
    (Responded /\ last.via = "cache") => last.sinceVerified >= 0

\* C4 witness: a signature whose fresh verification is for /exploits, presented to
\* /risk-score/:protocol, is not served from the cache.
C4_Witness ==
    /\ Responded
    /\ last.req.ep = "/risk-score/:protocol"
    /\ last.latestAt = "/exploits"
    /\ last.sinceVerified < 0
    /\ last.via # "cache"

\* C5: when the chain lookup of a suspended request fails, the response is 503,
\* the request has not passed the gate or reached the handler, and the
\* verification cache is left as it was.
C5_LookupUnavailable ==
    [][\A n \in Slots :
          (pending[n] # NoResponse /\ pending'[n] = NoResponse /\ last'.answer.error) =>
              /\ last'.status = 503
              /\ ~last'.passedGate
              /\ ~last'.handlerRan
              /\ verifCache' = verifCache]_vars

\* C5 witness: a lookup failure answered 503.
C5_Witness ==
    /\ last.answer.error
    /\ last.status = 503
    /\ last.lookedUp

\* --------------------------------------------------- claims: data service

\* a call to source s answers in this step
SourceAnswers(s) ==
    \E f \in FetchSlots :
        fetches[f].calls[s] = "inflight" /\ fetches'[f].calls[s] # "inflight"

\* a call to source s is issued in this step
SourceInvoked(s) ==
    \E f \in FetchSlots :
        fetches[f].calls[s] # "inflight" /\ fetches'[f].calls[s] = "inflight"

\* the answer of this step is a failure
AnswerFailed(s) == SourceAnswers(s) /\ ~recent'[s][Len(recent'[s])]

\* C6: a CLOSED circuit opens in exactly the steps in which a call to its
\* source fails and the source's two calls before it failed too: the third
\* consecutive failure. Fewer failures, or a success among the last three
\* answers, leave it CLOSED.
C6_OpensAtThreeFailures ==
    [][\A s \in Sources :
          circuit[s].status = "CLOSED" =>
              /\ circuit'[s].status \in {"CLOSED", "OPEN"}
              /\ circuit'[s].status = "OPEN" <=>
                    /\ AnswerFailed(s)
                    /\ Len(recent[s]) = 2
                    /\ ~recent[s][1]
                    /\ ~recent[s][2]]_vars

\* a circuit that has just opened on a third consecutive failure while the
\* other source, having failed less often, is still CLOSED
C6_Witness ==
    \E s \in Sources, t \in Sources :
        /\ circuit[s].status = "OPEN"
        /\ circuit[s].openedAt = dsNow
        /\ recent[s] = <<FALSE, FALSE>>
        /\ circuit[t].status = "CLOSED"
        /\ Len(recent[t]) = 2
        /\ ~recent[t][2]
        /\ recent[t][1]

\* C7: no step issues a call to a source whose circuit is OPEN and whose
\* cooldown (60 s since it opened) has not elapsed.
C7_OpenSourceNotInvoked ==
    [][\A s \in Sources :
          (circuit[s].status = "OPEN" /\ dsNow - circuit[s].openedAt < COOLDOWN)
              => ~SourceInvoked(s)]_vars

\* a fan-out in flight that skipped a source which has been OPEN since before
\* the fan-out began, while it queried the other source
C7_Witness ==
    \E f \in FetchSlots, s \in Sources, t \in Sources :
        /\ fetches[f].active
        /\ fetches[f].calls[s] = "skipped"
        /\ fetches[f].calls[t] = "inflight"
        /\ circuit[s].status = "OPEN"
        /\ circuit[s].openedAt < dsNow
        /\ dsNow - circuit[s].openedAt < COOLDOWN

\* C8: a circuit leaves OPEN only for HALF_OPEN, once its cooldown has elapsed
\* and with a call issued in that step; while it is HALF_OPEN exactly one call
\* to the source, the trial, is in flight and no other is issued, whatever
\* fetches overlap; the trial's success closes the circuit, its failure opens
\* it again with the cooldown counted from that moment.
C8_SingleTrial ==
    [][\A s \in Sources :
          /\ (circuit[s].status = "OPEN" /\ circuit'[s] # circuit[s]) =>
                /\ dsNow - circuit[s].openedAt >= COOLDOWN
                /\ circuit'[s].status = "HALF_OPEN"
                /\ SourceInvoked(s)
          /\ circuit'[s].status = "HALF_OPEN" =>
                Cardinality({f \in FetchSlots : fetches'[f].calls[s] = "inflight"}) = 1
          /\ circuit[s].status = "HALF_OPEN" =>
                /\ ~SourceInvoked(s)
                /\ SourceAnswers(s) <=> circuit'[s].status # "HALF_OPEN"
                /\ (SourceAnswers(s) /\ ~AnswerFailed(s)) =>
                      circuit'[s].status = "CLOSED"
                /\ AnswerFailed(s) =>
                      /\ circuit'[s].status = "OPEN"
                      /\ circuit'[s].openedAt = dsNow]_vars

\* two overlapping fetches at a HALF_OPEN source that opened again after a
\* failed trial: one of them carries the trial, the other skipped the source
C8_Witness ==
    \E s \in Sources, f \in FetchSlots, g \in FetchSlots :
        /\ circuit[s].status = "HALF_OPEN"
        /\ circuit[s].openedAt > 0
        /\ fetches[f].active
        /\ fetches[g].active
        /\ fetches[f].calls[s] = "inflight"
        /\ fetches[g].calls[s] = "skipped"

\* C9: a fetchExploits round in which every source failed or was skipped as
\* OPEN returns the empty sequence and does not raise; and whatever
\* fetchExploits does, an exception included, fetchKamiyoExploits returns a
\* list, the empty one when fetchExploits raised.
C9_NeverFailsCaller ==
    lastFetch.done =>
        /\ ~lastFetch.wrapped.raised
        /\ lastFetch.raised => lastFetch.wrapped.value = <<>>
        /\ ~lastFetch.raised => lastFetch.wrapped.value = lastFetch.value
        /\ (~lastFetch.fromCache
              /\ \A s \in Sources : lastFetch.calls[s] \in {"failed", "skipped"})
            => (~lastFetch.raised /\ lastFetch.value = <<>>)

\* a round returned with one source failed and the other skipped, its circuit
\* OPEN
C9_Witness ==
    /\ lastFetch.done
    /\ ~lastFetch.fromCache
    /\ \E s \in Sources, t \in Sources :
        /\ lastFetch.calls[s] = "failed"
        /\ lastFetch.calls[t] = "skipped"
        /\ circuit[t].status = "OPEN"
    /\ lastFetch.wrapped = DsReturn(<<>>)

\* C10: in every sequence fetchExploits returns, no two records agree in
\* protocol, chain, timestamp and description, and no record is older than the
\* one after it.
C10_DedupedNewestFirst ==
    (lastFetch.done /\ ~lastFetch.raised) =>
        \A i \in 1..Len(lastFetch.value), j \in 1..Len(lastFetch.value) :
            i < j =>
                /\ lastFetch.value[i].timestamp >= lastFetch.value[j].timestamp
                /\ ~ /\ lastFetch.value[i].protocol = lastFetch.value[j].protocol
                     /\ lastFetch.value[i].chain = lastFetch.value[j].chain
                     /\ lastFetch.value[i].timestamp = lastFetch.value[j].timestamp
                     /\ lastFetch.value[i].description = lastFetch.value[j].description

\* both sources responded, the one holding the older record first and with the
\* newer record reported twice: four records received, two returned
C10_Witness ==
    /\ lastFetch.done
    /\ ~lastFetch.fromCache
    /\ \A s \in Sources : lastFetch.calls[s] = "ok"
    /\ lastFetch.value = <<rNew, rOld>>

\* ---------------------------------------------------- claims: risk engine

\* 0.4 * f + 0.3 * l + 0.3 * r of three scores given in hundredths, rounded
Combined(f, l, r) == Round((4 * f + 3 * l + 3 * r) \div 10)

\* the loss score of the scored exploits before any rounding, in hundredths
UnroundedLossScore ==
    IF SumLoss(riskLast.exploits) \div 1000 <= 10000
    THEN SumLoss(riskLast.exploits) \div 1000 ELSE 10000

\* C11 as stated: the score is the rounded weighted sum of the three component
\* scores as factors reports them, that is, of the rounded components.
C11_AsStated ==
    riskLast.done =>
        riskLast.out.score = Combined(100 * riskLast.out.factors.exploit_frequency,
                                      100 * riskLast.out.factors.total_loss,
                                      100 * riskLast.out.factors.recency)

\* C11, amended: the score is the rounded weighted sum of the three component
\* scores before they are rounded (only the loss score can be fractional); the
\* components in factors are rounded for the report alone, and the weighted sum
\* of the reported components, rounded, is within 1 of the score.
C11_ScoreOverUnroundedComponents ==
    riskLast.done =>
        /\ riskLast.out.score = Combined(100 * riskLast.out.factors.exploit_frequency,
                                         UnroundedLossScore,
                                         100 * riskLast.out.factors.recency)
        /\ riskLast.out.factors.total_loss = Round(UnroundedLossScore)
        /\ riskLast.out.score
             - Combined(100 * riskLast.out.factors.exploit_frequency,
                        100 * riskLast.out.factors.total_loss,
                        100 * riskLast.out.factors.recency) \in {-1, 0, 1}

\* one old record of 160,000 USD: loss score 1.6, reported as 2; score
\* round(0.48) = 0, where the reported components give round(0.6) = 1
C11_Witness ==
    /\ riskLast.done
    /\ Len(riskLast.exploits) = 1
    /\ riskLast.out.factors.total_loss = 2
    /\ riskLast.out.factors.exploit_frequency = 0
    /\ riskLast.out.factors.recency = 0
    /\ riskLast.out.score = 0

LevelOf(score) ==
    IF score >= 75 THEN "CRITICAL"
    ELSE IF score >= 50 THEN "HIGH"
    ELSE IF score >= 25 THEN "MEDIUM"
    ELSE "LOW"

AdviceOf(level) ==
    CASE level = "CRITICAL" -> "AVOID - High exploit risk detected"
      [] level = "HIGH"     -> "CAUTION - Significant security concerns"
      [] level = "MEDIUM"   -> "MONITOR - Some historical issues"
      [] level = "LOW"      -> "ACCEPTABLE - Low risk profile"

\* C12: the reported risk_level and recommendation are those of the reported
\* integer score: CRITICAL/AVOID from 75, HIGH/CAUTION from 50, MEDIUM/MONITOR
\* from 25, LOW/ACCEPTABLE below.
C12_LevelOfReportedScore ==
    riskLast.done =>
        /\ riskLast.out.risk_level = LevelOf(riskLast.out.score)
        /\ riskLast.out.recommendation = AdviceOf(LevelOf(riskLast.out.score))

\* C13: the recency component is that of the newest record by timestamp,
\* wherever it stands in the sequence: 100 if less than 7 days old, 50 if less
\* than 30, else 0.
C13_RecencyOfNewestRecord ==
    (riskLast.done /\ riskLast.exploits # <<>>) =>
        LET newest == CHOOSE i \in 1..Len(riskLast.exploits) :
                        \A j \in 1..Len(riskLast.exploits) :
                            riskLast.exploits[j].timestamp <= riskLast.exploits[i].timestamp
            age == riskLast.at - riskLast.exploits[newest].timestamp IN
        riskLast.out.factors.recency =
            (IF age < 7 THEN 100 ELSE IF age < 30 THEN 50 ELSE 0)

\* the records less than 30 days old
RecentCount ==
    Cardinality({i \in 1..Len(riskLast.exploits) :
                    riskLast.at - riskLast.exploits[i].timestamp < 30})

\* C14: the frequency component is min(100, |recent| / 10 * 100) over the
\* records less than 30 days old, the loss component min(100, total loss /
\* 10,000,000 * 100) over all the records, each as reported, rounded.
C14_FrequencyAndLoss ==
    riskLast.done =>
        /\ riskLast.out.recent_exploits = RecentCount
        /\ riskLast.out.factors.exploit_frequency =
              (IF 10 * RecentCount <= 100 THEN 10 * RecentCount ELSE 100)
        /\ riskLast.out.total_loss_usd = SumLoss(riskLast.exploits)
        /\ riskLast.out.factors.total_loss = Round(UnroundedLossScore)
        /\ riskLast.out.factors.exploit_frequency <= 100
        /\ riskLast.out.factors.total_loss <= 100

\* more than ten recent records and more than 10,000,000 USD lost, part of it
\* in a record that is not recent: both components stand at 100
C14_Witness ==
    /\ riskLast.done
    /\ riskLast.out.recent_exploits > 10
    /\ riskLast.out.recent_exploits < Len(riskLast.exploits)
    /\ riskLast.exploits[1].timestamp <= riskLast.at - 30
    /\ riskLast.exploits[1].loss_usd > 0
    /\ riskLast.out.total_loss_usd > 10000000
    /\ riskLast.out.factors.exploit_frequency = 100
    /\ riskLast.out.factors.total_loss = 100

\* C15: with no negative loss_usd in the sequence, the score is an integer from
\* 0 to 100.
C15_ScoreInRange ==
    (riskLast.done /\ \A i \in 1..Len(riskLast.exploits) :
                            riskLast.exploits[i].loss_usd >= 0) =>
        riskLast.out.score \in 0..100

\* the three components at their caps: score 100
C15_Witness ==
    /\ riskLast.done
    /\ \A i \in 1..Len(riskLast.exploits) : riskLast.exploits[i].loss_usd >= 0
    /\ Len(riskLast.exploits) > 10
    /\ riskLast.out.score = 100

\* C16: the empty sequence scores 0, LOW, ACCEPTABLE, with no recent exploits
\* and the three components 0.
C16_NoRecords ==
    (riskLast.done /\ riskLast.exploits = <<>>) =>
        /\ riskLast.out.score = 0
        /\ riskLast.out.risk_level = "LOW"
        /\ riskLast.out.recommendation = "ACCEPTABLE - Low risk profile"
        /\ riskLast.out.recent_exploits = 0
        /\ riskLast.out.factors.exploit_frequency = 0
        /\ riskLast.out.factors.total_loss = 0
        /\ riskLast.out.factors.recency = 0

C16_Witness ==
    /\ riskLast.done
    /\ riskLast.exploits = <<>>
    /\ riskLast.out.score = 0

\* both calls had the same arguments
SameArguments ==
    /\ riskPrev.done
    /\ riskLast.done
    /\ riskPrev.exploits = riskLast.exploits
    /\ riskPrev.protocol = riskLast.protocol

Audited == 1..Len(detection.found)

\* detectRisks has returned its riskMap
DetectionReturned == ~detection.running /\ Len(detection.found) = Len(detection.approvals)

FlagsOfType(risks, type) == {k \in 1..Len(risks) : risks[k].type = type}

KeyOf(i) ==
    <<detection.approvals[i].token_address, detection.approvals[i].spender_address>>

\* the approval's key is the key of no other approval of the call
OwnKey(i) == \A j \in 1..Len(detection.approvals) : j # i => KeyOf(j) # KeyOf(i)

\* C18: each approval gets an unlimited flag, of severity high, exactly when
\* is_unlimited holds, and a stale flag, of severity medium, exactly when more
\* than 180 days have passed since last_updated, each whatever the other; the
\* flags found are those the returned mapping holds under the approval's key.
C18_UnlimitedAndStale ==
    \A i \in Audited :
        LET a == detection.approvals[i]
            risks == detection.found[i] IN
        /\ (FlagsOfType(risks, "unlimited") # {}) <=> a.is_unlimited
        /\ (FlagsOfType(risks, "stale") # {}) <=> (detection.at - a.last_updated > 180)
        /\ \A k \in FlagsOfType(risks, "unlimited") : risks[k].severity = "high"
        /\ \A k \in FlagsOfType(risks, "stale") : risks[k].severity = "medium"
        /\ Cardinality(FlagsOfType(risks, "unlimited")) <= 1
        /\ Cardinality(FlagsOfType(risks, "stale")) <= 1
        /\ (DetectionReturned /\ OwnKey(i) /\ risks # <<>>) => detection.riskMap[KeyOf(i)] = risks

\* an unlimited approval last updated 200 days ago, returned with both flags,
\* next to one updated exactly 180 days ago, found without a stale flag
C18_Witness ==
    /\ DetectionReturned
    /\ \E i \in Audited, j \in Audited :
        /\ OwnKey(i)
        /\ detection.approvals[i].is_unlimited
        /\ detection.at - detection.approvals[i].last_updated = 200
        /\ detection.riskMap[KeyOf(i)]
             = <<[type |-> "unlimited", severity |-> "high"],
                 [type |-> "stale", severity |-> "medium"]>>
        /\ detection.at - detection.approvals[j].last_updated = 180
        /\ detection.approvals[j].is_unlimited
        /\ detection.found[j] = <<[type |-> "unlimited", severity |-> "high"]>>

\* C19: the keys of the mapping are exactly the token-spender pairs of the
\* approvals for which some rule fired, each mapped to a non-empty list; an
\* approval for which no rule fired adds no key.
C19_KeysOfFlaggedApprovals ==
    /\ DOMAIN detection.riskMap =
          {KeyOf(i) : i \in {j \in Audited : detection.found[j] # <<>>}}
    /\ \A k \in DOMAIN detection.riskMap : Len(detection.riskMap[k]) > 0

\* returned for two approvals: one flagged, under its key, one without a flag
\* and without a key
C19_Witness ==
    /\ DetectionReturned
    /\ \E i \in Audited, j \in Audited :
        /\ detection.found[i] # <<>>
        /\ detection.found[j] = <<>>
        /\ KeyOf(i) \in DOMAIN detection.riskMap
        /\ KeyOf(j) \notin DOMAIN detection.riskMap

\* the severity C20 gives for a protocol's exploits, "" for no flag
ExploitSeverity(exploits, now) ==
    IF exploits = <<>> THEN ""
    ELSE IF \E k \in 1..Len(exploits) :
                /\ now - exploits[k].timestamp < 90
                /\ exploits[k].severity \in {"critical", "high"}
         THEN "critical"
    ELSE IF \E k \in 1..Len(exploits) : now - exploits[k].timestamp < 90
         THEN "high"
    ELSE "medium"

\* C20: for a spender of the router table whose protocol's exploits were
\* fetched, the exploited_protocol flag is critical if an exploit of the last
\* 90 days is critical or high, high if there are exploits of the last 90 days
\* but none of these, medium if all exploits are older, and absent if there are
\* none; for a spender that is not in the table nothing is fetched and no flag
\* attached.
C20_ExploitedProtocolSeverity ==
    \A i \in Audited :
        LET a == detection.approvals[i]
            risks == detection.found[i]
            answer == detection.answers[i]
            flags == FlagsOfType(risks, "exploited_protocol") IN
        /\ Cardinality(flags) <= 1
        /\ a.spender_address \notin DOMAIN protocolMap => (flags = {} /\ ~answer.fetched)
        /\ (a.spender_address \in DOMAIN protocolMap /\ ~answer.raised) =>
              /\ answer.fetched
              /\ IF ExploitSeverity(answer.value, detection.at) = ""
                 THEN flags = {}
                 ELSE \E k \in flags :
                        risks[k].severity = ExploitSeverity(answer.value, detection.at)

\* returned for two approvals to a router: one flagged critical for a recent
\* critical exploit, one flagged medium for an exploit 200 days old
C20_Witness ==
    /\ DetectionReturned
    /\ \E i \in Audited, j \in Audited :
        /\ [type |-> "exploited_protocol", severity |-> "critical"]
              \in {detection.found[i][k] : k \in 1..Len(detection.found[i])}
        /\ [type |-> "exploited_protocol", severity |-> "medium"]
              \in {detection.found[j][k] : k \in 1..Len(detection.found[j])}
        /\ detection.answers[j].value # <<>>
        /\ \A k \in 1..Len(detection.answers[j].value) :
              detection.at - detection.answers[j].value[k].timestamp >= 90

\* ------------------------------------------------------------ claims C21-C30

\* the loop of detectRisks has just dealt with one more approval
Audits == Len(detection'.found) = Len(detection.found) + 1

\* the approval that step dealt with, and the risks it found
AuditedApproval == detection.approvals[detection.next]

AuditedRisks == detection'.found[Len(detection'.found)]

\* the two addresses are the same but for letter case
SameIgnoringCase(a, b) ==
    \/ a = b
    \/ {a, b} = {"0x7a250d5630B4cF539739dF2C5dAcb4c659F2488D",
                 "0x7a250d5630b4cf539739df2c5dacb4c659f2488d"}
    \/ {a, b} = {"0xBadC0de000000000000000000000000000000001",
                 "0xbadc0de000000000000000000000000000000001"}

\* C21: whatever addresses addScamAddress has been given, an approval gets the
\* suspicious_spender flag, of severity critical and once, exactly when its
\* spender_address is, letter case aside, one of the addresses given before the
\* approval is dealt with.
C21_DenyListIgnoresCase ==
    [][Audits =>
        LET flags == FlagsOfType(AuditedRisks, "suspicious_spender") IN
        /\ (flags # {}) <=>
              \E a \in detection.added :
                  SameIgnoringCase(a, AuditedApproval.spender_address)
        /\ Cardinality(flags) <= 1
        /\ \A k \in flags : AuditedRisks[k].severity = "critical"]_vars

\* the address was added in mixed case and two approvals are returned, one
\* naming it in lower case, flagged, and one naming another spender, not flagged
C21_Witness ==
    /\ DetectionReturned
    /\ detection.added = {"0xBadC0de000000000000000000000000000000001"}
    /\ \E i \in Audited, j \in Audited :
        /\ detection.approvals[i].spender_address
              = "0xbadc0de000000000000000000000000000000001"
        /\ detection.found[i] = <<[type |-> "suspicious_spender", severity |-> "critical"]>>
        /\ detection.approvals[j].spender_address
              = "0x7a250d5630B4cF539739dF2C5dAcb4c659F2488D"
        /\ FlagsOfType(detection.found[j], "suspicious_spender") = {}

\* what fetchExploits answered in the step that dealt with one more approval
AuditedAnswer == detection'.answers[Len(detection'.answers)]

\* C27: when fetchExploits raises for an approval's spender, detectRisks goes
\* on: the approval gets no exploited_protocol flag and keeps its unlimited,
\* stale and suspicious_spender flags, what was found for the approvals before
\* it stays, and the loop moves to the next approval, or returns after the last.
C27_RaiseCostsOneFlag ==
    [][(Audits /\ AuditedAnswer.raised) =>
        LET a == AuditedApproval IN
        /\ FlagsOfType(AuditedRisks, "exploited_protocol") = {}
        /\ AuditedRisks =
              (IF a.is_unlimited
               THEN <<[type |-> "unlimited", severity |-> "high"]>> ELSE <<>>)
              \o (IF detection.at - a.last_updated > 180
                  THEN <<[type |-> "stale", severity |-> "medium"]>> ELSE <<>>)
              \o (IF \E x \in detection.added : SameIgnoringCase(x, a.spender_address)
                  THEN <<[type |-> "suspicious_spender", severity |-> "critical"]>>
                  ELSE <<>>)
        /\ SubSeq(detection'.found, 1, Len(detection.found)) = detection.found
        /\ detection'.approvals = detection.approvals
        /\ detection'.next = detection.next + 1
        /\ detection'.running <=> detection.next < Len(detection.approvals)
        /\ AuditedRisks # <<>> =>
              detection'.riskMap[<<a.token_address, a.spender_address>>] = AuditedRisks]_vars

\* returned for two approvals to the router: the first, unlimited, stale and
\* deny-listed, met a raise and has these three flags; the second has its
\* exploited_protocol flag
C27_Witness ==
    /\ DetectionReturned
    /\ Len(detection.found) = 2
    /\ detection.answers[1].raised
    /\ detection.found[1] = <<[type |-> "unlimited", severity |-> "high"],
                              [type |-> "stale", severity |-> "medium"],
                              [type |-> "suspicious_spender", severity |-> "critical"]>>
    /\ ~detection.answers[2].raised
    /\ FlagsOfType(detection.found[2], "exploited_protocol") # {}

\* the approvals dealt with that have the key and triggered a rule
FlaggedWithKey(key) == {i \in Audited : KeyOf(i) = key /\ detection.found[i] # <<>>}

\* C28: when several approvals of a call have the same token-spender key, the
\* mapping holds under that key the flags of the last of them, in input order,
\* that triggered a rule, and nothing of the others.
C28_LastFlaggedApprovalWins ==
    \A key \in DOMAIN detection.riskMap :
        /\ FlaggedWithKey(key) # {}
        /\ LET last_i == CHOOSE i \in FlaggedWithKey(key) :
                            \A j \in FlaggedWithKey(key) : j <= i IN
           detection.riskMap[key] = detection.found[last_i]

\* returned for two approvals of one key, the first flagged unlimited, the
\* second flagged stale: the key holds the stale flag alone
C28_Witness ==
    /\ DetectionReturned
    /\ Len(detection.found) = 2
    /\ KeyOf(1) = KeyOf(2)
    /\ detection.found[1] = <<[type |-> "unlimited", severity |-> "high"]>>
    /\ detection.found[2] = <<[type |-> "stale", severity |-> "medium"]>>
    /\ detection.riskMap[KeyOf(1)] = <<[type |-> "stale", severity |-> "medium"]>>

\* the addresses of the router table, as it spells them
RouterTable ==
    {"0x7a250d5630B4cF539739dF2C5dAcb4c659F2488D",
     "0xE592427A0AEce92De3Edee1F18E0157C05861564",
     "0x68b3465833fb72A70ecDF485E0e4C7bD8665Fc45",
     "0xd9e1cE17f2641f24aE83637ab66a2cca9C378B9F",
     "0x1111111254fb6c44bAC0beD2854e76F90643097d",
     "0xDef1C0ded9bec7F1a1670819833240f027b25EfF"}

\* C29: fetchExploits is called for an approval exactly when its
\* spender_address is, as written, an address of the router table, once, for
\* the approvals in input order and with every earlier approval's call
\* answered; a spender that is no table address as written, one in another
\* letter case included, gets no call and no exploited_protocol flag; outside
\* the loop's steps no call is made.
C29_FetchPerRouterApproval ==
    [][IF Audits
       THEN /\ AuditedAnswer.fetched <=> AuditedApproval.spender_address \in RouterTable
            /\ Len(detection'.answers) = Len(detection.answers) + 1
            /\ Len(detection'.answers) = detection.next
            /\ SubSeq(detection'.answers, 1, Len(detection.answers)) = detection.answers
            /\ AuditedApproval.spender_address \notin RouterTable =>
                  FlagsOfType(AuditedRisks, "exploited_protocol") = {}
       ELSE detection'.answers = detection.answers \/ detection'.answers = <<>>]_vars

\* returned for two approvals: the router as the table spells it, fetched and
\* flagged, then the same router in lower case, neither fetched nor flagged
C29_Witness ==
    /\ DetectionReturned
    /\ Len(detection.found) = 2
    /\ detection.approvals[1].spender_address = "0x7a250d5630B4cF539739dF2C5dAcb4c659F2488D"
    /\ detection.answers[1].fetched
    /\ FlagsOfType(detection.found[1], "exploited_protocol") # {}
    /\ detection.approvals[2].spender_address = "0x7a250d5630b4cf539739df2c5dacb4c659f2488d"
    /\ ~detection.answers[2].fetched
    /\ FlagsOfType(detection.found[2], "exploited_protocol") = {}

\* C30: an evaluation that reports a recency component above 0 reports at
\* least one recent exploit and an exploit_frequency component of at least 10,
\* wherever in the sequence the records stand.
C30_RecencyImpliesRecent ==
    (riskLast.done /\ riskLast.out.factors.recency > 0) =>
        /\ riskLast.out.recent_exploits >= 1
        /\ riskLast.out.factors.exploit_frequency >= 10

\* a recency of 50 for a first record 28 days old, followed by an older one,
\* with one recent exploit reported; the next day but one the same records have
\* recency 0 and no recent exploit
C30_Witness ==
    /\ riskPrev.done
    /\ riskLast.done
    /\ Len(riskPrev.exploits) = 2
    /\ riskPrev.at - riskPrev.exploits[1].timestamp = 28
    /\ riskPrev.at - riskPrev.exploits[2].timestamp = 100
    /\ riskPrev.out.factors.recency = 50
    /\ riskPrev.out.recent_exploits = 1
    /\ riskPrev.out.factors.exploit_frequency = 10
    /\ riskLast.at - riskLast.exploits[1].timestamp = 30
    /\ riskLast.out.factors.recency = 0
    /\ riskLast.out.recent_exploits = 0

\* the request was not turned away by the rate limiter or answered as a CORS
\* preflight ahead of its route
ReachedRoute(r) == ~r.req.limited /\ r.req.method # "OPTIONS"

C23_BareAnswer ==
    (Responded /\ last.req.ep \in Endpoints /\ ~last.req.limited
              /\ last.req.method \in {"HEAD", "OPTIONS"}) =>
        /\ last.status = 402
        /\ last.reason = "bare"
        /\ ~last.dsCalled
        /\ last.score = -1

\* C24: when the data service raises for a request that passed the gate,
\* /exploits answers 200 with count 0 and /risk-score answers 200 with the score
\* of no records, 0 and LOW; no response is a 500.
C24_FetchFailureIsNotFatal ==
    /\ last.status # 500
    /\ (Responded /\ last.dsRaised) =>
          /\ last.passedGate
          /\ last.status = 200
          /\ last.count = 0
          /\ last.req.ep = "/risk-score/:protocol" =>
                (last.score = 0 /\ last.level = "LOW")

\* a verified /risk-score request whose fetch raised, answered 200 with 0, LOW
C24_Witness ==
    /\ last.req.ep = "/risk-score/:protocol"
    /\ last.via = "verified"
    /\ last.dsRaised
    /\ last.status = 200
    /\ last.score = 0
    /\ last.level = "LOW"

\* C26: on /exploits and /risk-score/:protocol a request with invalid
\* parameters is answered by validation, 400, and the gate is not consulted: no
\* chain lookup is awaited for it and so no record written; on /approval-audit
\* the gate decides whatever the parameters.
C26_ValidationAheadOfGate ==
    /\ (Responded /\ ReachedRoute(last) /\ ~last.req.valid
            /\ last.req.ep \in {"/exploits", "/risk-score/:protocol"}) =>
          /\ last.status = 400
          /\ ~last.lookedUp
          /\ ~last.passedGate
          /\ last.via = "none"
    /\ \A n \in Slots :
          pending[n] # NoResponse =>
              (pending[n].req.valid \/ pending[n].req.ep = "/approval-audit")
    /\ (Responded /\ ReachedRoute(last) /\ last.req.ep = "/approval-audit") =>
          /\ last.status # 400
          /\ last.passedGate \/ last.status \in {402, 503}

\* an /approval-audit request with invalid parameters is suspended in the gate
\* while an /exploits request with invalid parameters and a payment claim is
\* answered 400 without a lookup
C26_Witness ==
    /\ pending[1].req.ep = "/approval-audit"
    /\ ~pending[1].req.valid
    /\ pending[1].lookedUp
    /\ last.req.ep = "/exploits"
    /\ last.req.header = "claim"
    /\ ~last.req.valid
    /\ last.status = 400
    /\ ~last.lookedUp

\* C25: two requests with the same signature that both arrive before it is
\* verified are both looked up on the chain and both proceed; at every moment
\* the cache holds for a signature the record of its latest verification and no
\* other: present once the signature has been verified, naming that
\* verification's resource, and expiring an hour after it.
C25_LastWriteWins ==
    /\ (Responded /\ last.lookedUp /\ last.answer.confirmed
            /\ last.answer.amount >= PRICE_PER_REQUEST_LAMPORTS
            /\ last.answer.recipient = PAYMENT_WALLET) =>
          (last.passedGate /\ last.via = "verified" /\ last.status = 200)
    /\ \A s \in Signatures :
          /\ verifCache[s].present <=> latestVerified[s] # ""
          /\ verifCache[s].present =>
                /\ verifCache[s].resource = MountResource(latestVerified[s])
                /\ IF verifiedLog[s][latestVerified[s]] >= 0
                   THEN verifCache[s].expiresAt
                          = verifiedLog[s][latestVerified[s]] + OneHour
                   ELSE verifCache[s].expiresAt <= gateNow

\* a request that arrived while its signature was unverified is verified half
\* an hour after another request with that signature was: its record takes the
\* other's place and expires an hour from now
C25_Witness ==
    /\ last.status = 200
    /\ last.via = "verified"
    /\ last.sinceVerified = -1
    /\ last.latestAt = ""
    /\ last.replaced
    /\ gateNow = 1
    /\ verifCache[last.req.claim.signature].present
    /\ verifCache[last.req.claim.signature].expiresAt = gateNow + OneHour

====
